---------------------------- MODULE Spec2Model ----------------------------
(***************************************************************************)
(* PuppetManager (src/src/PuppetManager.ts, array variant): a manager of   *)
(* browser instances held in three parallel JavaScript arrays (browsers,   *)
(* timerId, timeToLive), with one setInterval countdown per browser id,    *)
(* setInterval subscriptions, and asynchronous teardown (close()).         *)
(*                                                                         *)
(* JavaScript runs the manager on one thread: every action below is one    *)
(* run-to-completion piece of code between two suspension points (await).  *)
(* An operation suspended at an await is a record of `pending'.            *)
(*                                                                         *)
(* Every interval of the manager has the same period (1000 ms), so the     *)
(* intervals fire in the order in which they were armed, each once per     *)
(* period: `timers' is that queue, its head is the next interval to fire   *)
(* and a fired interval is re-armed at the tail.  Calls of the public API  *)
(* and resolutions of launch()/close() happen at any point in between.     *)
(***************************************************************************)
EXTENDS Integers, Sequences, FiniteSets

\* ---- bounds of the model ------------------------------------------------
MaxLaunches == 2        \* browsers launched over the manager's lifetime
MaxSlots    == 2        \* largest length of this.browsers callers let it reach
MaxTTL      == 2        \* largest explicit timeout / defaultTimeout tried
MaxPending  == 2        \* operations suspended at an await on close() at once
MaxSubs     == 2        \* unsubscribe functions held by callers
CloseCap    == 2        \* closeCalls saturates here ("more than once")

\* The manager is explored under several workloads, one chosen in Init:
\*   slots   length of this.browsers at which callers stop creating browsers
\*   pending operations suspended at an await on close() at once
\*   subs    subscriptions the callers make
\*   stray   whether callers also pass ids that are not live
\*   ttl     largest timeout argument and defaultTimeout
\*   dflt    whether the manager is constructed with options.defaultTimeout
\*   crash   whether browsers lose their connection
Workloads ==
    { [slots |-> MaxSlots, pending |-> 1, subs |-> 0, stray |-> TRUE, ttl |-> 1,
       dflt |-> TRUE, crash |-> FALSE],
      [slots |-> 1, pending |-> MaxPending, subs |-> 0, stray |-> FALSE, ttl |-> 1,
       dflt |-> TRUE, crash |-> FALSE],
      [slots |-> MaxSlots, pending |-> MaxPending, subs |-> 0, stray |-> FALSE,
       ttl |-> 0, dflt |-> TRUE, crash |-> FALSE],
      [slots |-> 1, pending |-> 1, subs |-> 1, stray |-> TRUE, ttl |-> 1,
       dflt |-> TRUE, crash |-> TRUE],
      [slots |-> 1, pending |-> 1, subs |-> 1, stray |-> FALSE,
       ttl |-> MaxTTL, dflt |-> TRUE, crash |-> FALSE],
      [slots |-> 1, pending |-> 1, subs |-> 0, stray |-> FALSE, ttl |-> 1,
       dflt |-> FALSE, crash |-> TRUE],
      [slots |-> MaxSlots, pending |-> 1, subs |-> 1, stray |-> FALSE,
       ttl |-> 0, dflt |-> TRUE, crash |-> TRUE],
      [slots |-> 1, pending |-> 1, subs |-> MaxSubs, stray |-> FALSE,
       ttl |-> 0, dflt |-> TRUE, crash |-> FALSE] }

\* ---- program constants --------------------------------------------------
DEFAULT_TTL_SECONDS == 84

\* ---- JavaScript values --------------------------------------------------
Null      == 0          \* null in browsers; browser objects are 1, 2, ...
Undefined == -10        \* undefined: array hole, index out of range, omitted argument
NaN       == -11        \* result of undefined--

VARIABLES
    browsers,       \* this.browsers: sequence over browser objects, Null, Undefined (hole)
    timerId,        \* this.timerId: sequence over interval handles, Undefined (hole)
    timeToLive,     \* this.timeToLive: sequence over seconds, Undefined (hole), NaN
    defaultTimeout, \* this.options.defaultTimeout (Undefined when not configured)
    timers,         \* the armed intervals, in firing order
    pending,        \* operations suspended at an await on close()
    launched,       \* number of browser objects puppeteer.launch has returned
    connected,      \* browser.connected of every launched browser object
    closeCalls,     \* history: number of close() requests per browser object
    unsubs,         \* handles captured by the unsubscribe functions callers hold
    issued,         \* history: ids createBrowser has returned so far
    dropped,        \* history: ids createPage removed on finding the browser
                    \* disconnected
    load,           \* the workload explored (constant over a behaviour)
    browserState,   \* single-browser manager: this.browser (instance, timerId,
                    \* timeToLive, browserId)
    records,        \* single-browser manager, history: number of 'timed out
                    \* and was closed' records written per browser id
    res             \* outcome of the last step: "ok", the call that threw (or
                    \* returned without acting) and why, or "cleanup: done"

vars == <<browsers, timerId, timeToLive, defaultTimeout, timers, pending,
          launched, connected, closeCalls, unsubs, issued, dropped, load, browserState, records, res>>

Objects  == 1..MaxLaunches
Ids      == -1..(MaxSlots - 1)            \* ids callers may pass, valid or not
Timeouts == 0..MaxTTL                     \* options.defaultTimeout
Seconds  == {Undefined} \cup (-1..MaxTTL)  \* timeout arguments (Undefined: omitted)

Min(a, b) == IF a < b THEN a ELSE b
Range(s)  == {s[i] : i \in 1..Len(s)}

\* ---- JavaScript arrays (id i is element i+1 of the sequence) -------------
JsGet(a, i) == IF i >= 0 /\ i < Len(a) THEN a[i + 1] ELSE Undefined

JsSet(a, i, v) ==
    IF i < Len(a) THEN [a EXCEPT ![i + 1] = v]
    ELSE a \o [j \in 1..(i - Len(a)) |-> Undefined] \o <<v>>

Truthy(b) == b > 0

\* ---- intervals ----------------------------------------------------------
\* mutant: every armed interval is cleared
clearIntervalAll(q, h) == SelectSeq(q, LAMBDA t : FALSE)

clearInterval(q, h) == SelectSeq(q, LAMBDA t : t.id # h)

Armed(q) == {q[i].id : i \in 1..Len(q)}

\* setInterval returns a handle no interval, array slot or closure refers
\* to: the first unused one, odd for a countdown, even for a subscription
Handles(kind, n) == {IF kind = "ttl" THEN 2 * i - 1 ELSE 2 * i : i \in 1..n}

FreshHandle(kind, q, tid, held) ==
    LET used == Armed(q) \cup Range(tid) \cup held
    IN  CHOOSE h \in Handles(kind, Cardinality(used) + 1) :
            h \notin used /\ \A g \in Handles(kind, Cardinality(used) + 1) :
                                g < h => g \in used

\* kind "ttl": the countdown of createTimeoutCloser, armed with `start'
\*             seconds, has fired n times
\* kind "sub": the interval of subscribeTTL; history: obj = the browser it
\*             was registered for, quiet = no call has acted on bid since
\*             the subscription, last = the value last passed to the
\*             callback and n = the number of values passed (2: two or
\*             more) while quiet
Interval(h, kind, bid, start) ==
    [id |-> h, kind |-> kind, bid |-> bid, start |-> start, n |-> 0,
     last |-> Undefined, quiet |-> TRUE, obj |-> Undefined]

\* ---- the part of the state the synchronous helpers work on --------------
Store == [browsers |-> browsers, timerId |-> timerId,
          timeToLive |-> timeToLive, timers |-> timers]

isValidBrowserId(brs, bid) ==
    bid >= 0 /\ bid < Len(brs) /\ JsGet(brs, bid) # Null

\* mutant: the guard checks the range of bid only, not the slot
AcceptsRange(brs, seconds, bid) == ~(seconds < 0 \/ bid < 0 \/ bid >= Len(brs))

\* mutant: the guard does not look at the sign of seconds
AcceptsNegative(brs, seconds, bid) == isValidBrowserId(brs, bid)

\* the guard of the closure createTimeoutCloser returns (FALSE: return)
Accepts(brs, seconds, bid) == ~(seconds < 0 \/ ~isValidBrowserId(brs, bid))

\* mutant: the seconds are added to the remaining TTL
timeoutCloserAdds(s, seconds, bid) ==
    IF ~Accepts(s.browsers, seconds, bid) THEN s
    ELSE LET q   == clearInterval(s.timers, JsGet(s.timerId, bid))
             h   == FreshHandle("ttl", q, JsSet(s.timerId, bid, Undefined), unsubs)
             old == JsGet(s.timeToLive, bid)
             new == IF old = Undefined \/ old = NaN THEN seconds ELSE old + seconds
         IN  [s EXCEPT !.timeToLive = JsSet(s.timeToLive, bid, new),
                       !.timerId    = JsSet(s.timerId, bid, h),
                       !.timers     = Append(q, Interval(h, "ttl", bid, new))]

\* mutant: the countdown that was running is not cancelled
timeoutCloserKeeps(s, seconds, bid) ==
    IF ~Accepts(s.browsers, seconds, bid) THEN s
    ELSE LET h == FreshHandle("ttl", s.timers, s.timerId, unsubs)
         IN  [s EXCEPT !.timeToLive = JsSet(s.timeToLive, bid, seconds),
                       !.timerId    = JsSet(s.timerId, bid, h),
                       !.timers     = Append(s.timers, Interval(h, "ttl", bid, seconds))]

timeoutCloser(s, seconds, bid) ==
    IF ~Accepts(s.browsers, seconds, bid) THEN s
    ELSE LET q == clearInterval(s.timers, JsGet(s.timerId, bid))
             h == FreshHandle("ttl", q, JsSet(s.timerId, bid, Undefined), unsubs)
         IN  [s EXCEPT !.timeToLive = JsSet(s.timeToLive, bid, seconds),
                       !.timerId    = JsSet(s.timerId, bid, h),
                       !.timers     = Append(q, Interval(h, "ttl", bid, seconds))]

\* mutant: || in place of ??, a timeout of 0 counts as omitted
TtlOr(timeout) ==
    IF timeout # Undefined /\ timeout # 0 THEN timeout
    ELSE IF defaultTimeout # Undefined /\ defaultTimeout # 0 THEN defaultTimeout
    ELSE DEFAULT_TTL_SECONDS

\* timeout ?? this.options.defaultTimeout ?? DEFAULT_TTL_SECONDS
Ttl(timeout) ==
    IF timeout # Undefined THEN timeout
    ELSE IF defaultTimeout # Undefined THEN defaultTimeout
    ELSE DEFAULT_TTL_SECONDS

\* mutant: without a timeout the remaining TTL of bid is kept when it has one
refreshTTLRemaining(s, bid, timeout) ==
    timeoutCloser(s,
                  IF timeout = Undefined /\ JsGet(s.timeToLive, bid) # Undefined
                  THEN JsGet(s.timeToLive, bid) ELSE Ttl(timeout),
                  bid)

refreshTTL(s, bid, timeout) == timeoutCloser(s, Ttl(timeout), bid)

SetStore(s) ==
    /\ browsers'   = s.browsers
    /\ timerId'    = s.timerId
    /\ timeToLive' = s.timeToLive
    /\ timers'     = s.timers

\* history: destroyBrowser, refreshTTL or createPage acts on bid (Disturb),
\* or cleanup acts (DisturbAll): the subscriptions concerned are not quiet
Disturb(q, bid) ==
    [i \in 1..Len(q) |->
        IF q[i].kind = "sub" /\ q[i].bid = bid
        THEN [q[i] EXCEPT !.quiet = FALSE, !.last = Undefined, !.n = 0]
        ELSE q[i]]

DisturbAll(q) ==
    [i \in 1..Len(q) |->
        IF q[i].kind = "sub"
        THEN [q[i] EXCEPT !.quiet = FALSE, !.last = Undefined, !.n = 0]
        ELSE q[i]]

\* the calls suspended at once are told apart by a number none of them bears
Calls == 0..MaxPending

FreshCall ==
    LET used == {pending[p].call : p \in 1..Len(pending)}
    IN  CHOOSE c \in Calls : c \notin used /\ \A d \in Calls : d < c => d \in used

\* an operation suspended at await close(): op, its bid (destroyBrowser,
\* handleBrowserTimeout) or the indexes still closing (cleanup), the number
\* of the call; history: tick = the number of the countdown tick that began
\* an expiry teardown
Suspended(op, bid, items) ==
    [op |-> op, bid |-> bid, items |-> items, tick |-> 0, call |-> FreshCall]

Remove(q, p) == [i \in 1..(Len(q) - 1) |-> IF i < p THEN q[i] ELSE q[i + 1]]

\* close() is requested on browser object k
Close(calls, k) == [calls EXCEPT ![k] = Min(@ + 1, CloseCap)]

\* this.browser as the constructor of the single-browser manager leaves it
EmptyBrowserState ==
    [instance |-> Null, timerId |-> Null, timeToLive |-> Null, browserId |-> Null]

Init ==
    /\ browsers = <<>>
    /\ timerId = <<>>
    /\ timeToLive = <<>>
    /\ timers = <<>>
    /\ pending = <<>>
    /\ launched = 0
    /\ connected = [k \in Objects |-> FALSE]
    /\ closeCalls = [k \in Objects |-> 0]
    /\ unsubs = {}
    /\ issued = {}
    /\ dropped = {}
    /\ browserState = EmptyBrowserState
    /\ records = [k \in Objects |-> 0]
    /\ load \in Workloads
    /\ defaultTimeout \in IF load.dflt THEN {t \in Timeouts : t <= load.ttl}
                          ELSE {Undefined}
    /\ res = "ok"

\* ---- createBrowser --------------------------------------------------------
\* Up to await puppeteer.launch nothing of the manager is read or written,
\* so a call acts on the manager when its launch resolves: push,
\* refreshTTL(bid), return bid.  Any number of calls may be awaiting launch.
\* mutant: the browser is stored in the first slot that was nulled, if any
CreateBrowserReuse ==
    /\ launched < MaxLaunches
    /\ Len(browsers) < load.slots
    /\ LET k    == launched + 1
           free == {i \in 0..(Len(browsers) - 1) : JsGet(browsers, i) = Null}
           bid  == IF free = {} THEN Len(browsers)
                   ELSE CHOOSE i \in free : \A j \in free : i <= j
           brs  == JsSet(browsers, bid, k)
       IN  /\ SetStore(refreshTTL([Store EXCEPT !.browsers = brs], bid, Undefined))
           /\ launched' = k
           /\ connected' = [connected EXCEPT ![k] = TRUE]
           /\ issued' = issued \cup {bid}
    /\ res' = "ok"
    /\ UNCHANGED <<defaultTimeout, pending, closeCalls, unsubs, dropped, load, browserState, records>>

CreateBrowser ==
    /\ launched < MaxLaunches
    /\ Len(browsers) < load.slots
    /\ LET k   == launched + 1
           brs == Append(browsers, k)
           bid == Len(brs) - 1
       IN  /\ SetStore(refreshTTL([Store EXCEPT !.browsers = brs], bid, Undefined))
           /\ launched' = k
           /\ connected' = [connected EXCEPT ![k] = TRUE]
           /\ issued' = issued \cup {bid}
    /\ res' = "ok"
    /\ UNCHANGED <<defaultTimeout, pending, closeCalls, unsubs, dropped, load, browserState, records>>

\* mutant: a rejected launch is tried again, and the second attempt succeeds
CreateBrowserRetry == CreateBrowser

\* puppeteer.launch rejected: the rejection propagates to the caller
CreateBrowserReject ==
    /\ res' = "createBrowser: launch failed"
    /\ UNCHANGED <<browsers, timerId, timeToLive, defaultTimeout, timers,
                   pending, launched, connected, closeCalls, unsubs, issued, dropped, load, browserState, records>>

\* the ids the callers of the workload pass
Passes(bid) == load.stray \/ isValidBrowserId(browsers, bid)

\* ---- createPage -----------------------------------------------------------
\* newPage() is awaited last and nothing of the manager is touched after it:
\* its outcome (a page, or a rejection) is part of the step
CreatePage(bid, pageOk) ==
    LET browser == JsGet(browsers, bid)
    IN  /\ Passes(bid)
        /\ IF ~isValidBrowserId(browsers, bid)
           THEN /\ res' = "createPage: invalid id"
                /\ UNCHANGED <<browsers, timerId, timeToLive, timers>>
           ELSE IF ~Truthy(browser)
           THEN /\ res' = "createPage: not found"
                /\ UNCHANGED <<browsers, timerId, timeToLive, timers>>
           ELSE IF ~connected[browser]
           THEN /\ browsers' = JsSet(browsers, bid, Null)
                /\ timers' = Disturb(timers, bid)
                /\ res' = "createPage: disconnected"
                /\ UNCHANGED <<timerId, timeToLive>>
           ELSE /\ SetStore(refreshTTL([Store EXCEPT !.timers = Disturb(timers, bid)],
                                       bid, Undefined))
                /\ res' = IF pageOk THEN "ok" ELSE "createPage: newPage failed"
        /\ dropped' = IF Truthy(browser) /\ ~connected[browser]
                      THEN dropped \cup {bid} ELSE dropped
        /\ UNCHANGED <<defaultTimeout, pending, launched, connected,
                       closeCalls, unsubs, issued, load, browserState, records>>

\* ---- refreshTTL -----------------------------------------------------------
RefreshTTL(bid, timeout) ==
    LET q == IF Accepts(browsers, Ttl(timeout), bid)
             THEN Disturb(timers, bid) ELSE timers
    IN  /\ Passes(bid)
        /\ timeout <= load.ttl
        /\ res' = IF Accepts(browsers, Ttl(timeout), bid) THEN "ok"
                  ELSE "refreshTTL: ignored"
        /\ UNCHANGED <<defaultTimeout, pending, launched, connected,
                       closeCalls, unsubs, issued, dropped, load, browserState, records>>
        /\ SetStore(refreshTTL([Store EXCEPT !.timers = q], bid, timeout))

\* ---- subscribeTTL ---------------------------------------------------------
\* mutant: validation checks the range of bid only, not the slot
validateRange(brs, bid) == bid >= 0 /\ bid < Len(brs)

validateBrowserId(brs, bid) == isValidBrowserId(brs, bid)   \* FALSE: throws

SubscribeTTL(bid) ==
    /\ Passes(bid)
    /\ IF ~validateBrowserId(browsers, bid)
       THEN /\ res' = "subscribeTTL: invalid id"
            /\ UNCHANGED <<timers, unsubs>>
       ELSE /\ Cardinality(unsubs) < load.subs
            /\ LET h == FreshHandle("sub", timers, timerId, unsubs)
               IN  /\ timers' = Append(timers,
                                  [Interval(h, "sub", bid, 0)
                                      EXCEPT !.obj = JsGet(browsers, bid)])
                   /\ unsubs' = unsubs \cup {h}
                   /\ res' = "ok"
    /\ UNCHANGED <<browsers, timerId, timeToLive, defaultTimeout, pending,
                   launched, connected, closeCalls, issued, dropped, load, browserState, records>>

\* mutant: the returned function clears every subscription interval
UnsubscribeAll(h) ==
    /\ h \in unsubs
    /\ timers' = SelectSeq(timers, LAMBDA t : t.kind # "sub")
    /\ res' = "ok"
    /\ UNCHANGED <<browsers, timerId, timeToLive, defaultTimeout, pending,
                   launched, connected, closeCalls, unsubs, issued, dropped, load, browserState, records>>

\* the function subscribeTTL returned: () => clearInterval(intervalId)
Unsubscribe(h) ==
    /\ h \in unsubs
    /\ timers' = clearInterval(timers, h)
    /\ res' = "ok"
    /\ UNCHANGED <<browsers, timerId, timeToLive, defaultTimeout, pending,
                   launched, connected, closeCalls, unsubs, issued, dropped, load, browserState, records>>

\* ---- destroyBrowser -------------------------------------------------------
\* validateBrowserId(bid); await this.browsers[bid]?.close()
DestroyBrowserCall(bid) ==
    LET browser == JsGet(browsers, bid)
    IN  /\ Passes(bid)
        /\ IF ~validateBrowserId(browsers, bid)
           THEN /\ res' = "destroyBrowser: invalid id"
                /\ UNCHANGED <<pending, closeCalls, timers>>
           ELSE /\ Len(pending) < load.pending
                /\ closeCalls' = IF Truthy(browser) THEN Close(closeCalls, browser)
                                 ELSE closeCalls
                /\ pending' = Append(pending, Suspended("destroy", bid, {}))
                /\ timers' = Disturb(timers, bid)
                /\ res' = "ok"
        /\ UNCHANGED <<browsers, timerId, timeToLive, defaultTimeout,                        launched, connected, unsubs, issued, dropped, load, browserState, records>>

\* close() resolved: this.browsers[bid] = null; clearInterval(this.timerId[bid])
DestroyBrowserResume(p) ==
    /\ p \in 1..Len(pending)
    /\ pending[p].op = "destroy"
    /\ LET bid == pending[p].bid
       IN  /\ browsers' = JsSet(browsers, bid, Null)
           /\ timers' = Disturb(clearInterval(timers, JsGet(timerId, bid)), bid)
           /\ res' = "ok"
    /\ pending' = Remove(pending, p)
    /\ UNCHANGED <<timerId, timeToLive, defaultTimeout, launched,
                   connected, closeCalls, unsubs, issued, dropped, load, browserState, records>>

\* ---- cleanup --------------------------------------------------------------
Live(brs) == {i \in 0..(Len(brs) - 1) : Truthy(JsGet(brs, i))}

CloseAll(calls, brs) ==
    [k \in Objects |->
        IF \E i \in Live(brs) : JsGet(brs, i) = k
        THEN Min(calls[k] + 1, CloseCap) ELSE calls[k]]

\* this.browsers.map(...): close() is requested on every browser of the
\* array, then cleanup waits for all of them
CleanupCall ==
    /\ Len(pending) < load.pending
    /\ closeCalls' = CloseAll(closeCalls, browsers)
    /\ pending' = Append(pending, Suspended("cleanup", Undefined, Live(browsers)))
    /\ timers' = DisturbAll(timers)
    /\ res' = "ok"
    /\ UNCHANGED <<browsers, timerId, timeToLive, defaultTimeout, launched, connected, unsubs, issued, dropped, load, browserState, records>>

\* mutant: cleanup replaces the arrays and leaves the intervals armed
CleanupResetArrays(s) ==
    [browsers |-> <<>>, timerId |-> <<>>, timeToLive |-> <<>>, timers |-> s.timers]

\* after Promise.all: this.timerId.forEach(clearInterval) and the three
\* arrays are replaced by empty ones
CleanupReset(s) ==
    [browsers |-> <<>>, timerId |-> <<>>, timeToLive |-> <<>>,
     timers |-> SelectSeq(s.timers, LAMBDA t : t.id \notin Range(s.timerId))]

\* one close() of cleanup resolved: this.browsers[i] = null; when it was the
\* last one Promise.all resolves and cleanup runs to its end
CleanupResume(p, i) ==
    /\ p \in 1..Len(pending)
    /\ pending[p].op = "cleanup"
    /\ i \in pending[p].items
    /\ LET s    == [Store EXCEPT !.browsers = JsSet(browsers, i, Null),
                                !.timers = DisturbAll(timers)]
           rest == pending[p].items \ {i}
       IN  IF rest = {}
           THEN /\ SetStore(CleanupReset(s))
                /\ pending' = Remove(pending, p)
                /\ res' = "cleanup: done"
           ELSE /\ SetStore(s)
                /\ pending' = [pending EXCEPT ![p].items = rest]
                /\ res' = "ok"
    /\ UNCHANGED <<defaultTimeout, launched, connected, closeCalls,
                   unsubs, issued, dropped, load, browserState, records>>

\* cleanup that found no browser to close: Promise.all([]) resolves
CleanupFinish(p) ==
    /\ p \in 1..Len(pending)
    /\ pending[p].op = "cleanup"
    /\ pending[p].items = {}
    /\ SetStore(CleanupReset([Store EXCEPT !.timers = DisturbAll(timers)]))
    /\ pending' = Remove(pending, p)
    /\ res' = "cleanup: done"
    /\ UNCHANGED <<defaultTimeout, launched, connected, closeCalls,
                   unsubs, issued, dropped, load, browserState, records>>

\* ---- the countdown interval of createTimeoutCloser --------------------------
\* mutant: the countdown expires one second early
ExpiredEarly(ttl) == ttl # Undefined /\ ttl # NaN /\ ttl <= 1

\* mutant: < in place of <=, the tick that finds 0 decrements once more
ExpiredLate(ttl) == ttl # Undefined /\ ttl # NaN /\ ttl < 0

Expired(ttl) == ttl # Undefined /\ ttl # NaN /\ ttl <= 0

Decrement(ttl) == IF ttl = Undefined \/ ttl = NaN THEN NaN ELSE ttl - 1

\* the fired interval t goes to the tail of the queue unless it was cleared
Rearm(q, t) ==
    IF t.id \in Armed(q) THEN Append(clearInterval(q, t.id), t) ELSE q

\* handleBrowserTimeout up to its await: clearInterval(this.timerId[bid]),
\* and close() is requested if the slot holds a browser
TickExpire(t) ==
    LET bid     == t.bid
        browser == JsGet(browsers, bid)
        q       == clearInterval(timers, JsGet(timerId, bid))
    IN  /\ timers' = Rearm(q, [t EXCEPT !.n = @ + 1])
        /\ IF Truthy(browser)
           THEN /\ Len(pending) < load.pending
                /\ closeCalls' = Close(closeCalls, browser)
                /\ pending' = Append(pending,
                       [Suspended("timeout", bid, {}) EXCEPT !.tick = t.n + 1])
                /\ res' = "ok"
           ELSE /\ res' = "ok"
                /\ UNCHANGED <<closeCalls, pending>>
        /\ UNCHANGED <<browsers, timerId, timeToLive>>

\* logTimeoutWarning(bid); this.timeToLive[bid]--
TickDecrement(t) ==
    /\ timeToLive' = JsSet(timeToLive, t.bid, Decrement(JsGet(timeToLive, t.bid)))
    /\ timers' = Rearm(timers, [t EXCEPT !.n = @ + 1])
    /\ res' = "ok"
    /\ UNCHANGED <<browsers, timerId, closeCalls, pending>>

Tick ==
    /\ timers # <<>>
    /\ Head(timers).kind = "ttl"
    /\ IF Expired(JsGet(timeToLive, Head(timers).bid))
       THEN TickExpire(Head(timers))
       ELSE TickDecrement(Head(timers))
    /\ UNCHANGED <<defaultTimeout, launched, connected, unsubs, issued, dropped, load, browserState, records>>

\* mutant: the continuation of handleBrowserTimeout leaves the slot as it is
TimeoutResumeKeeps(p) ==
    /\ p \in 1..Len(pending)
    /\ pending[p].op = "timeout"
    /\ pending' = Remove(pending, p)
    /\ res' = "ok"
    /\ UNCHANGED <<browsers, timerId, timeToLive, defaultTimeout, timers, launched,
                   connected, closeCalls, unsubs, issued, dropped, load, browserState, records>>

\* close() of handleBrowserTimeout resolved: this.browsers[bid] = null
TimeoutResume(p) ==
    /\ p \in 1..Len(pending)
    /\ pending[p].op = "timeout"
    /\ browsers' = JsSet(browsers, pending[p].bid, Null)
    /\ pending' = Remove(pending, p)
    /\ res' = "ok"
    /\ UNCHANGED <<timerId, timeToLive, defaultTimeout, timers, launched, connected, closeCalls, unsubs, issued, dropped, load, browserState, records>>

\* ---- the interval of subscribeTTL ---------------------------------------------
SubTick ==
    /\ timers # <<>>
    /\ Head(timers).kind = "sub"
    /\ LET t == Head(timers)
       IN  IF Truthy(JsGet(browsers, t.bid))
           THEN /\ timers' = Rearm(timers,
                                   IF t.quiet
                                   THEN [t EXCEPT !.last = JsGet(timeToLive, t.bid),
                                                  !.n = Min(@ + 1, 2)]
                                   ELSE t)
                /\ res' = "ok"
           ELSE /\ timers' = clearInterval(timers, t.id)
                /\ res' = "ok"
    /\ UNCHANGED <<browsers, timerId, timeToLive, defaultTimeout, pending,
                   launched, connected, closeCalls, unsubs, issued, dropped, load, browserState, records>>

\* ---- the environment ------------------------------------------------------------
\* a launched browser loses its connection (crash, or its process exits)
Disconnect(k) ==
    /\ load.crash
    /\ k \in Range(browsers)
    /\ connected[k]
    /\ connected' = [connected EXCEPT ![k] = FALSE]
    /\ res' = "ok"
    /\ UNCHANGED <<browsers, timerId, timeToLive, defaultTimeout, timers,
                   pending, launched, closeCalls, unsubs, issued, dropped, load, browserState, records>>

Next ==
    \/ CreateBrowser
    \/ CreateBrowserReject
    \/ \E bid \in Ids, pageOk \in BOOLEAN : CreatePage(bid, pageOk)
    \/ \E bid \in Ids, timeout \in Seconds : RefreshTTL(bid, timeout)
    \/ \E bid \in Ids : SubscribeTTL(bid)
    \/ \E h \in unsubs : Unsubscribe(h)
    \/ \E bid \in Ids : DestroyBrowserCall(bid)
    \/ \E p \in 1..Len(pending) : DestroyBrowserResume(p)
    \/ CleanupCall
    \/ \E p \in 1..Len(pending), i \in 0..MaxLaunches : CleanupResume(p, i)
    \/ \E p \in 1..Len(pending) : CleanupFinish(p)
    \/ Tick
    \/ \E p \in 1..Len(pending) : TimeoutResume(p)
    \/ SubTick
    \/ \E k \in Objects : Disconnect(k)

Spec == Init /\ [][Next]_vars

\* every close() cleanup awaits resolves, and the continuation of a resolved
\* promise runs: the steps of a suspended cleanup are not postponed for ever
CleanupFairness ==
    \A c \in Calls :
        WF_vars(\E p \in 1..Len(pending) :
                   /\ pending[p].call = c
                   /\ \/ CleanupFinish(p)
                      \/ \E i \in 0..MaxLaunches : CleanupResume(p, i))

\* termination of cleanup is explored with the default timeouts 0 and 1
FairInit == Init /\ load.dflt /\ load.ttl <= 1

FairSpec == FairInit /\ [][Next]_vars /\ CleanupFairness

\* ---- a caller that leaves reclamation to the countdowns ---------------------
\* the constructor was given a positive defaultTimeout
IdleInit == Init /\ defaultTimeout # Undefined /\ defaultTimeout > 0

\* every operation but destroyBrowser and cleanup
IdleNext ==
    \/ CreateBrowser
    \/ CreateBrowserReject
    \/ \E bid \in Ids, pageOk \in BOOLEAN : CreatePage(bid, pageOk)
    \/ \E bid \in Ids, timeout \in Seconds : RefreshTTL(bid, timeout)
    \/ \E bid \in Ids : SubscribeTTL(bid)
    \/ \E h \in unsubs : Unsubscribe(h)
    \/ Tick
    \/ \E p \in 1..Len(pending) : TimeoutResume(p)
    \/ SubTick
    \/ \E k \in Objects : Disconnect(k)

\* the event loop fires every due interval, every close() awaited by
\* handleBrowserTimeout resolves and its continuation runs
IdleFairness ==
    /\ WF_vars(Tick)
    /\ WF_vars(SubTick)
    /\ \A c \in Calls :
          WF_vars(\E p \in 1..Len(pending) :
                     pending[p].call = c /\ TimeoutResume(p))

IdleSpec == IdleInit /\ [][IdleNext]_vars /\ IdleFairness

\* ---- a manager on which cleanup() is not called ------------------------------
NoCleanupNext ==
    \/ CreateBrowser
    \/ CreateBrowserReject
    \/ \E bid \in Ids, pageOk \in BOOLEAN : CreatePage(bid, pageOk)
    \/ \E bid \in Ids, timeout \in Seconds : RefreshTTL(bid, timeout)
    \/ \E bid \in Ids : SubscribeTTL(bid)
    \/ \E h \in unsubs : Unsubscribe(h)
    \/ \E bid \in Ids : DestroyBrowserCall(bid)
    \/ \E p \in 1..Len(pending) : DestroyBrowserResume(p)
    \/ Tick
    \/ \E p \in 1..Len(pending) : TimeoutResume(p)
    \/ SubTick
    \/ \E k \in Objects : Disconnect(k)

NoCleanupSpec == Init /\ [][NoCleanupNext]_vars

\* ==== the single-browser PuppetManager ====================================
\* One browser at a time, identified by the UUID randomUUID() gave it: the
\* UUID of the k-th browser launched is modelled by k. The manager shares the
\* event loop (timers, pending), the launched browsers (launched, connected,
\* closeCalls) and the options (defaultTimeout) with the model above, whose
\* arrays stay empty here.

\* an id no createBrowser has returned
Stranger == MaxLaunches + 1

\* the ids callers pass: the ones createBrowser returned, and a foreign one
SingleIds == 1..Stranger

SinglePasses(bid) ==
    \/ bid = browserState.browserId
    \/ load.stray /\ bid \in issued \cup {Stranger}

\* validateBrowserId(bid): returns a boolean, never throws
SingleValidateBrowserId(b, bid) == bid = b.browserId

\* the closure createTimeoutCloser returns, on the pair <<this.browser, timers>>
SingleTimeoutCloser(b, q, seconds, bid) ==
    IF seconds < 0 \/ ~SingleValidateBrowserId(b, bid)
    THEN <<b, q>>
    ELSE LET q1 == clearInterval(q, b.timerId)
             h  == FreshHandle("ttl", q1, <<>>, unsubs)
         IN  <<[b EXCEPT !.timeToLive = seconds, !.timerId = h],
               Append(q1, Interval(h, "ttl", bid, seconds))>>

\* refreshTTL(bid, timeout)
SingleRefresh(b, q, bid, timeout) == SingleTimeoutCloser(b, q, Ttl(timeout), bid)

SingleUntouched ==
    UNCHANGED <<browsers, timerId, timeToLive, defaultTimeout, dropped, load>>

\* the launches requested and not yet settled
Launching == {p \in 1..Len(pending) : pending[p].op = "launch"}

\* mutant: createBrowser launches whether an instance exists or not
SingleCreateBrowserAlways ==
    /\ Len(pending) < load.pending
    /\ launched + Cardinality(Launching) < MaxLaunches
    /\ pending' = Append(pending, Suspended("launch", Null, {}))
    /\ res' = "ok"
    /\ UNCHANGED <<browserState, records, timers, launched, connected, closeCalls,
                   unsubs, issued>>
    /\ SingleUntouched

\* createBrowser up to `await puppeteer.launch': throws when an instance exists
SingleCreateBrowserCall ==
    /\ IF Truthy(browserState.instance)
       THEN /\ res' = "createBrowser: Browser already created"
            /\ UNCHANGED pending
       ELSE /\ Len(pending) < load.pending
            /\ launched + Cardinality(Launching) < MaxLaunches
            /\ pending' = Append(pending, Suspended("launch", Null, {}))
            /\ res' = "ok"
    /\ UNCHANGED <<browserState, records, timers, launched, connected, closeCalls,
                   unsubs, issued>>
    /\ SingleUntouched

\* the launch resolved: instance, browserId = randomUUID(), refreshTTL(browserId)
SingleCreateBrowserResume(p) ==
    /\ p \in Launching
    /\ LET k  == launched + 1
           st == SingleRefresh([browserState EXCEPT !.instance = k, !.browserId = k],
                               timers, k, Undefined)
       IN  /\ browserState' = st[1]
           /\ timers' = st[2]
           /\ launched' = k
           /\ connected' = [connected EXCEPT ![k] = TRUE]
           /\ issued' = issued \cup {k}
    /\ pending' = Remove(pending, p)
    /\ res' = "ok"
    /\ UNCHANGED <<records, closeCalls, unsubs>>
    /\ SingleUntouched

\* the launch rejected: 'Failed to create browser' reaches the caller
SingleCreateBrowserReject(p) ==
    /\ p \in Launching
    /\ pending' = Remove(pending, p)
    /\ res' = "createBrowser: launch failed"
    /\ UNCHANGED <<browserState, records, timers, launched, connected, closeCalls,
                   unsubs, issued>>
    /\ SingleUntouched

\* createPage: the result of validateBrowserId(bid) is dropped; newPage() is
\* awaited last and nothing of the manager is touched after it
SingleCreatePage(bid, pageOk) ==
    /\ SinglePasses(bid)
    /\ IF ~Truthy(browserState.instance)
       THEN /\ res' = "createPage: not found"
            /\ UNCHANGED <<browserState, timers>>
       ELSE IF ~connected[browserState.instance]
       THEN /\ browserState' = [browserState EXCEPT !.instance = Null]
            /\ res' = "createPage: disconnected"
            /\ UNCHANGED timers
       ELSE LET st == SingleRefresh(browserState, timers, bid, Undefined)
            IN  /\ browserState' = st[1]
                /\ timers' = st[2]
                /\ res' = IF pageOk THEN "createPage: page"
                          ELSE "createPage: newPage failed"
    /\ UNCHANGED <<records, pending, launched, connected, closeCalls, unsubs, issued>>
    /\ SingleUntouched

SingleRefreshTTL(bid, timeout) ==
    /\ SinglePasses(bid)
    /\ timeout \in {Undefined} \cup (-1..load.ttl)
    /\ LET st == SingleRefresh(browserState, timers, bid, timeout)
       IN  /\ browserState' = st[1]
           /\ timers' = st[2]
           /\ res' = IF st = <<browserState, timers>> THEN "refreshTTL: ignored" ELSE "ok"
    /\ UNCHANGED <<records, pending, launched, connected, closeCalls, unsubs, issued>>
    /\ SingleUntouched

\* subscribeTTL: the result of validateBrowserId(bid) is dropped
SingleSubscribeTTL(bid) ==
    /\ SinglePasses(bid)
    /\ Cardinality(unsubs) < load.subs
    /\ LET h == FreshHandle("sub", timers, <<browserState.timerId>>, unsubs)
       IN  /\ timers' = Append(timers, Interval(h, "sub", bid, 0))
           /\ unsubs' = unsubs \cup {h}
    /\ res' = "subscribeTTL: subscribed"
    /\ UNCHANGED <<browserState, records, pending, launched, connected, closeCalls, issued>>
    /\ SingleUntouched

\* what follows the await of destroyBrowser and of handleBrowserTimeout:
\* this.browser.instance = null; clearInterval(this.browser.timerId)
SingleDrop ==
    /\ browserState' = [browserState EXCEPT !.instance = Null]
    /\ timers' = clearInterval(timers, browserState.timerId)

\* destroyBrowser: the result of validateBrowserId(bid) is dropped; with no
\* instance nothing is awaited on and the call runs to its end
SingleDestroyBrowserCall(bid) ==
    /\ SinglePasses(bid)
    /\ IF Truthy(browserState.instance)
       THEN /\ Len(pending) < load.pending
            /\ closeCalls' = Close(closeCalls, browserState.instance)
            /\ pending' = Append(pending, Suspended("destroy", bid, {}))
            /\ UNCHANGED <<browserState, timers>>
       ELSE /\ SingleDrop
            /\ UNCHANGED <<closeCalls, pending>>
    /\ res' = "destroyBrowser: accepted"
    /\ UNCHANGED <<records, launched, connected, unsubs, issued>>
    /\ SingleUntouched

SingleDestroyBrowserResume(p) ==
    /\ p \in 1..Len(pending)
    /\ pending[p].op = "destroy"
    /\ SingleDrop
    /\ pending' = Remove(pending, p)
    /\ res' = "ok"
    /\ UNCHANGED <<records, launched, connected, closeCalls, unsubs, issued>>
    /\ SingleUntouched

\* what follows the await of cleanup
SingleReset ==
    /\ browserState' = EmptyBrowserState
    /\ timers' = IF Truthy(browserState.timeToLive) \/ Truthy(browserState.timerId)
                 THEN clearInterval(timers, browserState.timerId) ELSE timers

SingleCleanupCall ==
    /\ IF Truthy(browserState.instance)
       THEN /\ Len(pending) < load.pending
            /\ closeCalls' = Close(closeCalls, browserState.instance)
            /\ pending' = Append(pending, Suspended("cleanup", Null, {}))
            /\ res' = "ok"
            /\ UNCHANGED <<browserState, timers>>
       ELSE /\ SingleReset
            /\ res' = "cleanup: done"
            /\ UNCHANGED <<closeCalls, pending>>
    /\ UNCHANGED <<records, launched, connected, unsubs, issued>>
    /\ SingleUntouched

SingleCleanupResume(p) ==
    /\ p \in 1..Len(pending)
    /\ pending[p].op = "cleanup"
    /\ SingleReset
    /\ pending' = Remove(pending, p)
    /\ res' = "cleanup: done"
    /\ UNCHANGED <<records, launched, connected, closeCalls, unsubs, issued>>
    /\ SingleUntouched

\* handleBrowserTimeout up to its await: close() is requested if there is an
\* instance and the interval stays armed; with no instance the interval is
\* cleared at once
SingleExpire(t) ==
    IF Truthy(browserState.instance)
    THEN /\ Len(pending) < load.pending
         /\ closeCalls' = Close(closeCalls, browserState.instance)
         /\ pending' = Append(pending,
                [Suspended("timeout", t.bid, {}) EXCEPT !.tick = t.n + 1])
         /\ timers' = Rearm(timers, [t EXCEPT !.n = @ + 1])
    ELSE /\ timers' = Rearm(clearInterval(timers, browserState.timerId),
                            [t EXCEPT !.n = @ + 1])
         /\ UNCHANGED <<closeCalls, pending>>

\* the countdown interval of createTimeoutCloser
SingleTick ==
    /\ timers # <<>>
    /\ Head(timers).kind = "ttl"
    /\ IF browserState.timeToLive <= 0
       THEN /\ SingleExpire(Head(timers))
            /\ UNCHANGED browserState
       ELSE /\ browserState' = [browserState EXCEPT !.timeToLive = @ - 1]
            /\ timers' = Rearm(timers, [Head(timers) EXCEPT !.n = @ + 1])
            /\ UNCHANGED <<closeCalls, pending>>
    /\ res' = "ok"
    /\ UNCHANGED <<records, launched, connected, unsubs, issued>>
    /\ SingleUntouched

\* close() of handleBrowserTimeout resolved: the instance is dropped, the
\* 'timed out and was closed' record is written, the interval is cleared
SingleTimeoutResume(p) ==
    /\ p \in 1..Len(pending)
    /\ pending[p].op = "timeout"
    /\ SingleDrop
    /\ records' = [records EXCEPT ![pending[p].bid] = Min(@ + 1, CloseCap)]
    /\ pending' = Remove(pending, p)
    /\ res' = "ok"
    /\ UNCHANGED <<launched, connected, closeCalls, unsubs, issued>>
    /\ SingleUntouched

\* the interval of subscribeTTL
SingleSubTick ==
    /\ timers # <<>>
    /\ Head(timers).kind = "sub"
    /\ LET t == Head(timers)
       IN  timers' = IF Truthy(browserState.instance)
                     THEN Rearm(timers, t)
                     ELSE clearInterval(timers, t.id)
    /\ res' = "ok"
    /\ UNCHANGED <<browserState, records, pending, launched, connected, closeCalls,
                   unsubs, issued>>
    /\ SingleUntouched

\* getBrowser: throws on an id other than browserId, else returns
\* this.browser.instance
SingleGetBrowser(bid) ==
    /\ SinglePasses(bid)
    /\ res' = IF ~SingleValidateBrowserId(browserState, bid) THEN "getBrowser: invalid id"
              ELSE IF Truthy(browserState.instance) THEN "getBrowser: instance"
              ELSE "getBrowser: null"
    /\ UNCHANGED <<browserState, records, timers, pending, launched, connected,
                   closeCalls, unsubs, issued>>
    /\ SingleUntouched

\* the browser loses its connection
SingleDisconnect ==
    /\ load.crash
    /\ Truthy(browserState.instance)
    /\ connected[browserState.instance]
    /\ connected' = [connected EXCEPT ![browserState.instance] = FALSE]
    /\ res' = "ok"
    /\ UNCHANGED <<browserState, records, timers, pending, launched, closeCalls,
                   unsubs, issued>>
    /\ SingleUntouched

SingleNext ==
    \/ SingleCreateBrowserCall
    \/ \E p \in 1..Len(pending) : SingleCreateBrowserResume(p)
    \/ \E p \in 1..Len(pending) : SingleCreateBrowserReject(p)
    \/ \E bid \in SingleIds, pageOk \in BOOLEAN : SingleCreatePage(bid, pageOk)
    \/ \E bid \in SingleIds, timeout \in Seconds : SingleRefreshTTL(bid, timeout)
    \/ \E bid \in SingleIds : SingleSubscribeTTL(bid)
    \/ \E h \in unsubs : Unsubscribe(h)
    \/ \E bid \in SingleIds : SingleDestroyBrowserCall(bid)
    \/ \E p \in 1..Len(pending) : SingleDestroyBrowserResume(p)
    \/ SingleCleanupCall
    \/ \E p \in 1..Len(pending) : SingleCleanupResume(p)
    \/ SingleTick
    \/ \E p \in 1..Len(pending) : SingleTimeoutResume(p)
    \/ SingleSubTick
    \/ \E bid \in SingleIds : SingleGetBrowser(bid)
    \/ SingleDisconnect

\* the single-browser manager is explored with the workloads of one browser
\* at a time and a defaultTimeout of one second
SingleInit ==
    /\ Init
    /\ load.slots = 1 /\ load.dflt /\ load.ttl = 1
    /\ defaultTimeout = load.ttl

SingleSpec == SingleInit /\ [][SingleNext]_vars

\* ==== the legacy Puppet class ===============================================
\* The class keeps the same three arrays as the array manager (browsers,
\* timerId, timeToLive) and shares the event loop and the launched browsers
\* with the models above.

\* refreshTTL(bid): this.timeoutCloser(84, bid)
PuppetTTL == 84

\* the closure createTimeoutCloser returns: the slot is not looked at
PuppetTimeoutCloser(s, seconds, bid) ==
    IF seconds < 0 \/ bid < 0 \/ bid >= Len(s.browsers) THEN s
    ELSE LET q == clearInterval(s.timers, JsGet(s.timerId, bid))
             h == FreshHandle("ttl", q, JsSet(s.timerId, bid, Undefined), unsubs)
         IN  [s EXCEPT !.timeToLive = JsSet(s.timeToLive, bid, seconds),
                       !.timerId    = JsSet(s.timerId, bid, h),
                       !.timers     = Append(q, Interval(h, "ttl", bid, seconds))]

PuppetRefresh(s, bid) == PuppetTimeoutCloser(s, PuppetTTL, bid)

PuppetUntouched ==
    UNCHANGED <<defaultTimeout, issued, dropped, load, browserState, records>>

\* newBrowser, from the resolution of puppet.launch on
PuppetNewBrowser ==
    /\ launched < MaxLaunches
    /\ Len(browsers) < load.slots
    /\ LET k   == launched + 1
           brs == Append(browsers, k)
       IN  /\ SetStore(PuppetRefresh([Store EXCEPT !.browsers = brs], Len(brs) - 1))
           /\ launched' = k
           /\ connected' = [connected EXCEPT ![k] = TRUE]
    /\ res' = "ok"
    /\ UNCHANGED <<pending, closeCalls, unsubs>>
    /\ PuppetUntouched

\* puppet.launch rejected
PuppetNewBrowserReject ==
    /\ res' = "newBrowser: launch failed"
    /\ UNCHANGED <<browsers, timerId, timeToLive, timers, pending, launched,
                   connected, closeCalls, unsubs>>
    /\ PuppetUntouched

\* newPage: refreshTTL(bid) comes before the test of the slot
PuppetNewPage(bid, pageOk) ==
    /\ Passes(bid)
    /\ SetStore(PuppetRefresh(Store, bid))
    /\ res' = IF ~Truthy(JsGet(browsers, bid)) THEN "newPage: not found"
              ELSE IF pageOk THEN "newPage: page" ELSE "newPage: failed"
    /\ UNCHANGED <<pending, launched, connected, closeCalls, unsubs>>
    /\ PuppetUntouched

PuppetRefreshTTL(bid) ==
    /\ Passes(bid)
    /\ SetStore(PuppetRefresh(Store, bid))
    /\ res' = "ok"
    /\ UNCHANGED <<pending, launched, connected, closeCalls, unsubs>>
    /\ PuppetUntouched

PuppetGetBrowser(bid) ==
    /\ Passes(bid)
    /\ res' = IF Truthy(JsGet(browsers, bid)) THEN "getBrowser: instance"
              ELSE "getBrowser: not found"
    /\ UNCHANGED <<browsers, timerId, timeToLive, timers, pending, launched,
                   connected, closeCalls, unsubs>>
    /\ PuppetUntouched

PuppetSubscribeTTL(bid) ==
    /\ Passes(bid)
    /\ IF bid < 0 \/ ~Truthy(JsGet(browsers, bid)) \/ bid >= Len(browsers)
       THEN /\ res' = "subscribeTTL: not found"
            /\ UNCHANGED <<timers, unsubs>>
       ELSE /\ Cardinality(unsubs) < load.subs
            /\ LET h == FreshHandle("sub", timers, timerId, unsubs)
               IN  /\ timers' = Append(timers, Interval(h, "sub", bid, 0))
                   /\ unsubs' = unsubs \cup {h}
            /\ res' = "ok"
    /\ UNCHANGED <<browsers, timerId, timeToLive, pending, launched, connected,
                   closeCalls>>
    /\ PuppetUntouched

\* destroyBrowser up to `await this.browsers[bid].close()'
PuppetDestroyBrowserCall(bid) ==
    /\ Passes(bid)
    /\ IF ~Truthy(JsGet(browsers, bid))
       THEN /\ res' = "destroyBrowser: not found"
            /\ UNCHANGED <<pending, closeCalls>>
       ELSE /\ Len(pending) < load.pending
            /\ closeCalls' = Close(closeCalls, JsGet(browsers, bid))
            /\ pending' = Append(pending, Suspended("destroy", bid, {}))
            /\ res' = "ok"
    /\ UNCHANGED <<browsers, timerId, timeToLive, timers, launched, connected,
                   unsubs>>
    /\ PuppetUntouched

\* close() resolved: this.browsers[bid] = null; clearInterval(this.timerId[bid])
PuppetDestroyBrowserResume(p) ==
    /\ p \in 1..Len(pending)
    /\ pending[p].op = "destroy"
    /\ browsers' = JsSet(browsers, pending[p].bid, Null)
    /\ timers' = clearInterval(timers, JsGet(timerId, pending[p].bid))
    /\ pending' = Remove(pending, p)
    /\ res' = "ok"
    /\ UNCHANGED <<timerId, timeToLive, launched, connected, closeCalls, unsubs>>
    /\ PuppetUntouched

\* the callbacks of this.browsers.forEach, each suspended at its close()
RECURSIVE Closing(_, _)
Closing(pend, ids) ==
    IF ids = {} THEN pend
    ELSE LET i    == CHOOSE j \in ids : \A l \in ids : j <= l
             used == {pend[p].call : p \in 1..Len(pend)}
             c    == CHOOSE d \in Calls : d \notin used
         IN  Closing(Append(pend, [op |-> "finallize", bid |-> i, items |-> {},
                                   tick |-> 0, call |-> c]),
                     ids \ {i})

\* the synchronous rest of finallize: this.timerId.forEach(clearInterval) and
\* the three arrays are replaced by empty ones
finallize(s) ==
    [browsers |-> <<>>, timerId |-> <<>>, timeToLive |-> <<>>,
     timers |-> SelectSeq(s.timers, LAMBDA t : t.id \notin Range(s.timerId))]

\* finallize(): synchronous; close() is requested on every browser of the
\* array and none is awaited by finallize itself
PuppetFinallize ==
    /\ Len(pending) + Cardinality(Live(browsers)) <= load.pending
    /\ closeCalls' = CloseAll(closeCalls, browsers)
    /\ pending' = Closing(pending, Live(browsers))
    /\ SetStore(finallize(Store))
    /\ res' = "finallize: done"
    /\ UNCHANGED <<launched, connected, unsubs>>
    /\ PuppetUntouched

\* a close() of finallize or of an expired countdown resolved:
\* this.browsers[i] = null
PuppetCloseResume(p) ==
    /\ p \in 1..Len(pending)
    /\ pending[p].op \in {"finallize", "timeout"}
    /\ browsers' = JsSet(browsers, pending[p].bid, Null)
    /\ pending' = Remove(pending, p)
    /\ res' = "ok"
    /\ UNCHANGED <<timerId, timeToLive, timers, launched, connected, closeCalls,
                   unsubs>>
    /\ PuppetUntouched

\* the countdown interval: this.timeToLive[bid]-- and, at 0, the interval is
\* cleared and close() requested on the browser in the slot
PuppetTick ==
    /\ timers # <<>>
    /\ Head(timers).kind = "ttl"
    /\ LET t       == Head(timers)
           bid     == t.bid
           ttl     == Decrement(JsGet(timeToLive, bid))
           browser == JsGet(browsers, bid)
       IN  /\ timeToLive' = JsSet(timeToLive, bid, ttl)
           /\ IF ttl # 0
              THEN /\ timers' = Rearm(timers, t)
                   /\ UNCHANGED <<closeCalls, pending>>
              ELSE /\ timers' = Rearm(clearInterval(timers, JsGet(timerId, bid)), t)
                   /\ IF Truthy(browser)
                      THEN /\ Len(pending) < load.pending
                           /\ closeCalls' = Close(closeCalls, browser)
                           /\ pending' = Append(pending, Suspended("timeout", bid, {}))
                      ELSE UNCHANGED <<closeCalls, pending>>
    /\ res' = "ok"
    /\ UNCHANGED <<browsers, timerId, launched, connected, unsubs>>
    /\ PuppetUntouched

\* the interval of subscribeTTL
PuppetSubTick ==
    /\ timers # <<>>
    /\ Head(timers).kind = "sub"
    /\ LET t == Head(timers)
       IN  timers' = IF Truthy(JsGet(browsers, t.bid)) THEN Rearm(timers, t)
                     ELSE clearInterval(timers, t.id)
    /\ res' = "ok"
    /\ UNCHANGED <<browsers, timerId, timeToLive, pending, launched, connected,
                   closeCalls, unsubs>>
    /\ PuppetUntouched

PuppetNext ==
    \/ PuppetNewBrowser
    \/ PuppetNewBrowserReject
    \/ \E bid \in Ids, pageOk \in BOOLEAN : PuppetNewPage(bid, pageOk)
    \/ \E bid \in Ids : PuppetRefreshTTL(bid)
    \/ \E bid \in Ids : PuppetGetBrowser(bid)
    \/ \E bid \in Ids : PuppetSubscribeTTL(bid)
    \/ \E h \in unsubs : Unsubscribe(h)
    \/ \E bid \in Ids : PuppetDestroyBrowserCall(bid)
    \/ \E p \in 1..Len(pending) : PuppetDestroyBrowserResume(p)
    \/ PuppetFinallize
    \/ \E p \in 1..Len(pending) : PuppetCloseResume(p)
    \/ PuppetTick
    \/ PuppetSubTick

\* the legacy class takes no options (defaultTimeout is not read); it is
\* explored with the workloads of one browser at a time
PuppetInit ==
    /\ Init
    /\ load.slots = 1 /\ load.dflt /\ load.ttl = 1
    /\ defaultTimeout = load.ttl

PuppetSpec == PuppetInit /\ [][PuppetNext]_vars

\* ==== properties ===========================================================

\* a teardown of id bid by destroyBrowser or by expiry is suspended at close()
TearingDown(bid) ==
    \E p \in 1..Len(pending) :
        pending[p].op \in {"destroy", "timeout"} /\ pending[p].bid = bid

\* C1: close() is requested at most once on every launched browser, over
\* every interleaving of destroyBrowser, expiry and cleanup.
C1_CloseAtMostOnce == \A k \in Objects : closeCalls[k] <= 1

\* C2: a countdown armed with T seconds begins the expiry teardown on exactly
\* its (T+1)-th tick: each of its first T ticks finds T minus the number of
\* earlier ticks, decrements it by one, keeps the interval armed and touches
\* neither the store nor any browser; the (T+1)-th tick finds 0, stops the
\* interval and requests close() of the browser in the slot.
C2_ExpiryOnTickTPlusOne ==
    [][Tick =>
        LET t       == Head(timers)
            ttl     == JsGet(timeToLive, t.bid)
            browser == JsGet(browsers, t.bid)
        IN  /\ t.n <= t.start
            /\ ttl = t.start - t.n
            /\ t.n < t.start =>
                  /\ JsGet(timeToLive', t.bid) = ttl - 1
                  /\ t.id \in Armed(timers')
                  /\ UNCHANGED <<browsers, closeCalls, pending>>
            /\ t.n = t.start =>
                  /\ t.id \notin Armed(timers')
                  /\ UNCHANGED <<browsers, timeToLive>>
                  /\ Truthy(browser) =>
                        /\ closeCalls'[browser] = Min(closeCalls[browser] + 1, CloseCap)
                        /\ Len(pending') = Len(pending) + 1
                        /\ pending'[Len(pending')].op = "timeout"
                        /\ pending'[Len(pending')].bid = t.bid
                        /\ pending'[Len(pending')].tick = t.start + 1
    ]_vars

\* C2 witness: an expiry teardown begun by the third tick of a countdown of
\* two seconds is awaiting close().
C2_Witness ==
    \E p \in 1..Len(pending) :
        /\ pending[p].op = "timeout"
        /\ pending[p].tick = 3
        /\ JsGet(timeToLive, pending[p].bid) = 0
        /\ Truthy(JsGet(browsers, pending[p].bid))
\* what a call on an id that is not live must leave alone
StoreUnchanged ==
    UNCHANGED <<browsers, timerId, timeToLive, timers, pending, closeCalls,
                unsubs, connected>>

NoLiveId == Len(browsers) > 0 /\ \A i \in 0..(Len(browsers) - 1) : JsGet(browsers, i) = Null

C5_IdNeverReused == [][CreateBrowser => Len(browsers) \notin issued]_vars

\* C6: destroyBrowser stops the countdown of id before it requests close(),
\* and no countdown tick of id runs while a teardown of id awaits close().
C6_TimerStoppedFirst ==
    [][/\ \A bid \in Ids :
            (isValidBrowserId(browsers, bid) /\ DestroyBrowserCall(bid))
               => JsGet(timerId, bid) \notin Armed(timers')
       /\ Tick => ~TearingDown(Head(timers).bid)
    ]_vars

\* C7: no countdown interval is armed for an id that is not live.
C7_NoTimerForDeadId ==
    \A i \in 1..Len(timers) :
        timers[i].kind = "ttl" => isValidBrowserId(browsers, timers[i].bid)

\* C8: once destroyBrowser or expiry has requested close() for id, createPage
\* returns no page for it and refreshTTL neither changes its remaining TTL
\* nor re-arms its countdown.
C8_TeardownIsMonotonic ==
    [][\A bid \in Ids :
          TearingDown(bid) =>
             /\ \A pageOk \in BOOLEAN : CreatePage(bid, pageOk) => res' # "ok"
             /\ \A timeout \in Seconds :
                   RefreshTTL(bid, timeout) => UNCHANGED <<timeToLive, timerId, timers>>
    ]_vars

\* C9: the callback of a subscription is invoked only while the slot still
\* holds the browser the subscription was registered for, never after that
\* browser has been torn down.
C9_NoCallbackAfterTeardown ==
    [][SubTick =>
          LET t == Head(timers)
          IN  Truthy(JsGet(browsers, t.bid)) => JsGet(browsers, t.bid) = t.obj
    ]_vars

\* C10: for a subscription on which no refreshTTL, createPage, destroyBrowser
\* or cleanup has acted since it was registered, every value passed to the
\* callback is smaller than the value passed before it.
C10_CallbackValuesDecrease ==
    [][SubTick =>
          LET t == Head(timers)
          IN  (Truthy(JsGet(browsers, t.bid)) /\ t.quiet /\ t.n > 0)
                  => JsGet(timeToLive, t.bid) < t.last
    ]_vars

\* the cleanup call numbered c is suspended at its await
CleanupPending(c) ==
    \E p \in 1..Len(pending) : pending[p].op = "cleanup" /\ pending[p].call = c

\* the step in which the cleanup at position p of pending runs to its end
CleanupCompletes(p) ==
    /\ p <= Len(pending)
    /\ pending[p].op = "cleanup"
    /\ \/ CleanupFinish(p)
       \/ \E i \in 0..MaxLaunches : pending[p].items = {i} /\ CleanupResume(p, i)

\* C11: every cleanup call terminates when its close() calls resolve, and the
\* step that completes it leaves browsers, timerId and timeToLive empty and
\* no countdown armed, whatever ran while it was suspended.
C11_CleanupEmptiesStore ==
    /\ [][\A p \in 1..MaxPending :
             CleanupCompletes(p) =>
                /\ browsers' = <<>> /\ timerId' = <<>> /\ timeToLive' = <<>>
                /\ \A j \in 1..Len(timers') : timers'[j].kind # "ttl"
         ]_vars
    /\ \A c \in Calls : CleanupPending(c) ~> ~CleanupPending(c)

\* C11 witness: a cleanup of every browser launched has just completed: the
\* store is empty and close() was requested once on each of them.
C11_Witness ==
    /\ res = "cleanup: done"
    /\ browsers = <<>> /\ timerId = <<>> /\ timeToLive = <<>>
    /\ pending = <<>>
    /\ launched = MaxLaunches
    /\ \A k \in Objects : closeCalls[k] = 1

\* C12: refreshTTL(id, s) with s >= 0 on an id isValidBrowserId accepts leaves
\* timeToLive[id] = s, whatever it was before.
C12_RefreshSetsExactly ==
    [][\A bid \in Ids, timeout \in 0..MaxTTL :
          (isValidBrowserId(browsers, bid) /\ RefreshTTL(bid, timeout))
              => JsGet(timeToLive', bid) = timeout
    ]_vars

\* C12 witness: refreshTTL(id, 2) has just replaced a remaining TTL that came
\* from a default timeout of 1 or less.
C12_Witness ==
    /\ defaultTimeout \in {0, 1}
    /\ \E i \in 1..Len(timers) :
          /\ timers[i].kind = "ttl" /\ timers[i].start = 2 /\ timers[i].n = 0
          /\ JsGet(timeToLive, timers[i].bid) = 2
          /\ Truthy(JsGet(browsers, timers[i].bid))

\* the countdowns armed for bid
Countdowns(q, bid) ==
    {i \in 1..Len(q) : q[i].kind = "ttl" /\ q[i].bid = bid}

\* C13: after refreshTTL(id, s) with s > 0 on a live id the only countdown
\* armed for id is a new one of s seconds that has not ticked (the one that
\* was running is cancelled), and timerId[id] is its handle;
\* the k-th tick of a countdown of s seconds, k <= s, leaves timeToLive[id]
\* at s - k.
C13_RefreshRestartsCountdown ==
    [][/\ \A bid \in Ids, timeout \in 1..MaxTTL :
            (isValidBrowserId(browsers, bid) /\ RefreshTTL(bid, timeout))
               => /\ Cardinality(Countdowns(timers', bid)) = 1
                  /\ \A i \in Countdowns(timers', bid) :
                        /\ timers'[i].start = timeout
                        /\ timers'[i].n = 0
                        /\ timers'[i].id = JsGet(timerId', bid)
       /\ Tick =>
            LET t == Head(timers)
            IN  /\ Cardinality(Countdowns(timers, t.bid)) = 1
                /\ t.n < t.start => JsGet(timeToLive', t.bid) = t.start - (t.n + 1)
    ]_vars

\* C13 witness: one tick after refreshTTL(id, 2) on a manager whose default
\* timeout is 0, the remaining TTL of the live id is 1.
C13_Witness ==
    /\ defaultTimeout = 0
    /\ \E i \in 1..Len(timers) :
          /\ timers[i].kind = "ttl" /\ timers[i].start = 2 /\ timers[i].n = 1
          /\ JsGet(timeToLive, timers[i].bid) = 1
          /\ Truthy(JsGet(browsers, timers[i].bid))

\* C14: refreshTTL(id, s) with s < 0 returns without acting: browsers,
\* timeToLive, timerId, every interval (none cleared, none armed), the
\* suspended operations and the browsers are as they were.
C14_NegativeRefreshIsNoOp ==
    [][\A bid \in Ids, timeout \in {t \in Seconds : t # Undefined /\ t < 0} :
          RefreshTTL(bid, timeout)
              => /\ StoreUnchanged
                 /\ UNCHANGED <<defaultTimeout, launched, issued>>
                 /\ res' = "refreshTTL: ignored"
    ]_vars

\* C14 witness: refreshTTL with a negative timeout has just returned on a
\* live id whose countdown of one second has ticked once and is still armed.
C14_Witness ==
    /\ res = "refreshTTL: ignored"
    /\ ~load.stray
    /\ \E i \in 1..Len(timers) :
          /\ timers[i].kind = "ttl" /\ timers[i].start = 1 /\ timers[i].n = 1
          /\ timers[i].id = JsGet(timerId, timers[i].bid)
          /\ JsGet(timeToLive, timers[i].bid) = 0
          /\ Truthy(JsGet(browsers, timers[i].bid))

\* the countdown of bid is armed with seconds and has not ticked
StartsAt(brs, ttls, q, bid, seconds) ==
    /\ JsGet(ttls, bid) = seconds
    /\ \A i \in Countdowns(q, bid) : q[i].start = seconds /\ q[i].n = 0
    /\ Countdowns(q, bid) # {}

\* C15: on a manager constructed without defaultTimeout, createBrowser
\* starts the countdown of the new id at 60, and refreshTTL(id) without a
\* timeout on a live id sets its remaining TTL to 60.
C15_DefaultIsSixty ==
    [][defaultTimeout = Undefined =>
          /\ CreateBrowser
                => StartsAt(browsers', timeToLive', timers', Len(browsers), 60)
          /\ \A bid \in Ids :
                (isValidBrowserId(browsers, bid) /\ RefreshTTL(bid, Undefined))
                    => StartsAt(browsers', timeToLive', timers', bid, 60)
    ]_vars

\* C16: on a manager constructed with defaultTimeout D >= 0, createBrowser
\* starts the countdown of the new id at D, refreshTTL(id) without a timeout
\* sets the remaining TTL of a live id to D, and refreshTTL(id, s) with
\* s >= 0, s = 0 included, sets it to s.
C16_ConfiguredDefault ==
    [][defaultTimeout # Undefined =>
          /\ CreateBrowser
                => StartsAt(browsers', timeToLive', timers', Len(browsers),
                            defaultTimeout)
          /\ \A bid \in Ids :
                isValidBrowserId(browsers, bid) =>
                   /\ RefreshTTL(bid, Undefined)
                         => StartsAt(browsers', timeToLive', timers', bid,
                                     defaultTimeout)
                   /\ \A timeout \in 0..MaxTTL :
                         RefreshTTL(bid, timeout)
                            => StartsAt(browsers', timeToLive', timers', bid, timeout)
    ]_vars

\* C16 witness: on a manager with defaultTimeout 1 the countdown of a live
\* id stands at 0 without a tick: refreshTTL(id, 0) took precedence.
C16_Witness ==
    /\ defaultTimeout = 1
    /\ \E bid \in Ids :
          /\ Truthy(JsGet(browsers, bid))
          /\ StartsAt(browsers, timeToLive, timers, bid, 0)

\* the countdown intervals of q, in firing order
CountdownsOf(q) == SelectSeq(q, LAMBDA t : t.kind = "ttl")

\* C17: createPage(id) on a live id whose browser is not connected throws,
\* nulls browsers[id] and leaves timeToLive, timerId and the countdowns as
\* they were; and an id removed this way is never again accepted by
\* isValidBrowserId (so by createPage, subscribeTTL and destroyBrowser).
C17_DisconnectedIdStaysDead ==
    /\ [][\A bid \in Ids, pageOk \in BOOLEAN :
             (/\ Truthy(JsGet(browsers, bid))
              /\ ~connected[JsGet(browsers, bid)]
              /\ CreatePage(bid, pageOk))
                 => /\ res' = "createPage: disconnected"
                    /\ JsGet(browsers', bid) = Null
                    /\ CountdownsOf(timers') = CountdownsOf(timers)
                    /\ UNCHANGED <<timeToLive, timerId, pending, closeCalls>>
         ]_vars
    /\ [](\A bid \in dropped : ~isValidBrowserId(browsers, bid))

\* options.defaultTimeout, else DEFAULT_TTL_SECONDS
ConfiguredDefault ==
    IF defaultTimeout # Undefined THEN defaultTimeout ELSE DEFAULT_TTL_SECONDS

\* C18: createPage(id) on a live, connected browser sets timeToLive[id] to the
\* configured default and restarts the countdown of id at it, whatever the
\* remaining TTL was, and it has done so when newPage() is requested (also
\* when newPage() then rejects).
C18_CreatePageResetsToDefault ==
    [][\A bid \in Ids, pageOk \in BOOLEAN :
          (/\ Truthy(JsGet(browsers, bid))
           /\ connected[JsGet(browsers, bid)]
           /\ CreatePage(bid, pageOk))
              => /\ StartsAt(browsers', timeToLive', timers', bid, ConfiguredDefault)
                 /\ Cardinality(Countdowns(timers', bid)) = 1
                 /\ res' = IF pageOk THEN "ok" ELSE "createPage: newPage failed"
    ]_vars

\* C18 witness: newPage() has rejected in a createPage that restarted the
\* countdown of a live id at the default timeout of 0.
C18_Witness ==
    /\ res = "createPage: newPage failed"
    /\ defaultTimeout = 0
    /\ \E bid \in Ids :
          /\ Truthy(JsGet(browsers, bid))
          /\ StartsAt(browsers, timeToLive, timers, bid, 0)

\* C19: when puppeteer.launch rejects, createBrowser rejects and browsers,
\* timerId, timeToLive, the intervals, the ids issued and the number of
\* browsers launched are as before: no slot, no id, no timer, no TTL entry,
\* no second launch.
C19_FailedLaunchChangesNothing ==
    [][CreateBrowserReject =>
          /\ res' = "createBrowser: launch failed"
          /\ StoreUnchanged
          /\ UNCHANGED <<issued, launched, defaultTimeout>>
    ]_vars

\* C19 witness: a launch has been rejected on a manager that holds a browser
\* whose countdown has ticked.
C19_Witness ==
    /\ res = "createBrowser: launch failed"
    /\ browsers = <<1>>
    /\ launched = 1
    /\ \E i \in 1..Len(timers) : timers[i].kind = "ttl" /\ timers[i].n = 1

\* C20: every entry of timeToLive is an integer >= 0 (a hole of the array is
\* no entry).
C20_TTLNeverNegative ==
    \A i \in 0..(Len(timeToLive) - 1) :
        JsGet(timeToLive, i) = Undefined \/ JsGet(timeToLive, i) \in Nat

\* C20 witness: the countdown of an id that createPage removed went on to 0
\* and was stopped by the tick that found 0.
C20_Witness ==
    \E bid \in dropped :
        /\ JsGet(browsers, bid) = Null
        /\ JsGet(timeToLive, bid) = 0
        /\ JsGet(timerId, bid) \notin Armed(timers)
        /\ Countdowns(timers, bid) = {}
        /\ pending = <<>>
        /\ closeCalls[1] = 0
        /\ defaultTimeout = 1

\* what a step on another id must leave alone for b: its slot, its
\* remaining TTL, its handle and its countdowns (armed or not, ticks counted)
SameFor(b) ==
    /\ JsGet(browsers', b) = JsGet(browsers, b)
    /\ JsGet(timeToLive', b) = JsGet(timeToLive, b)
    /\ JsGet(timerId', b) = JsGet(timerId, b)
    /\ {timers'[i] : i \in Countdowns(timers', b)}
          = {timers[i] : i \in Countdowns(timers, b)}

\* the step is a call on id a, a resumption of a call on a, or a tick of the
\* countdown of a
StepOn(a) ==
    \/ \E timeout \in Seconds : RefreshTTL(a, timeout)
    \/ \E pageOk \in BOOLEAN : CreatePage(a, pageOk)
    \/ SubscribeTTL(a)
    \/ DestroyBrowserCall(a)
    \/ \E p \in 1..Len(pending) :
          pending[p].bid = a /\ (DestroyBrowserResume(p) \/ TimeoutResume(p))
    \/ timers # <<>> /\ Head(timers).bid = a /\ Tick

\* C21: for ids a # b, refreshTTL(a), createPage(a), subscribeTTL(a),
\* destroyBrowser(a) (its call and its resumption), a tick of the countdown of
\* a and the expiry teardown of a leave browsers[b], timeToLive[b] and the
\* countdown of b as they were (stated by contraposition: a step that changes
\* anything of b is not a step on a).
C21_OtherIdUntouched ==
    [][\A a \in Ids, b \in 0..(MaxSlots - 1) :
          (a # b /\ ~SameFor(b)) => ~StepOn(a)]_vars

\* C21 witness: id 0 has been destroyed (close() once, slot nulled, its
\* countdown stopped) while id 1 holds a browser never closed whose countdown
\* is armed.
C21_Witness ==
    /\ Len(browsers) = 2
    /\ JsGet(browsers, 0) = Null
    /\ Countdowns(timers, 0) = {}
    /\ closeCalls[1] = 1
    /\ JsGet(browsers, 1) = 2
    /\ closeCalls[2] = 0
    /\ Countdowns(timers, 1) # {}
    /\ pending = <<>>

\* a call of refreshTTL or createPage on the id that holds browser k
TouchOf(k) ==
    \E bid \in 0..(MaxSlots - 1) :
        /\ JsGet(browsers, bid) = k
        /\ \/ \E timeout \in Seconds : RefreshTTL(bid, timeout)
           \/ \E pageOk \in BOOLEAN : CreatePage(bid, pageOk)

\* browser k is out of the store, and close() was requested on it unless it
\* had lost its connection before
Reclaimed(k) ==
    /\ k \notin Range(browsers)
    /\ closeCalls[k] >= 1 \/ ~connected[k]

C23_InvalidAfterTickTPlusOne ==
    [][Tick =>
        LET t       == Head(timers)
            browser == JsGet(browsers, t.bid)
        IN  (/\ t.n = t.start
             /\ Truthy(browser)
             /\ closeCalls[browser] = 0
             /\ ~TearingDown(t.bid))
               => /\ JsGet(browsers', t.bid) = Null
                  /\ ~isValidBrowserId(browsers', t.bid)
                  /\ closeCalls'[browser] = 1
                  /\ \A p \in 1..Len(pending') : pending'[p].bid # t.bid
    ]_vars

\* the subscriptions armed for bid that no call has disturbed since they were
\* registered, the browser they were registered for still in the slot
IdleSubs(bid) ==
    {i \in 1..Len(timers) :
        /\ timers[i].kind = "sub"
        /\ timers[i].bid = bid
        /\ timers[i].quiet
        /\ timers[i].obj = JsGet(browsers, bid)}

\* C24: when the expiry teardown of an id removes it from the
\* store, every callback subscribed to it while it was live, left idle since
\* and not unsubscribed has been invoked with 0.
C24_ZeroBeforeRemoval ==
    [][\A p \in 1..Len(pending) :
          TimeoutResume(p) =>
              \A i \in IdleSubs(pending[p].bid) : timers[i].last = 0
    ]_vars

\* C25: calling the function subscribeTTL returned stops its interval, and a
\* stopped subscription interval is never armed again, so the callback is
\* not invoked after the call; the call raises no error and, whether it is
\* the first one, a repeated one or one made after the subscription ended by
\* itself, it leaves the store, the suspended calls and every other interval
\* (subscription or countdown) as they were; a call that finds the interval
\* already stopped changes nothing at all.
C25_UnsubscribeIsFinalAndHarmless ==
    [][\A h \in unsubs :
          /\ h \notin Armed(timers) => h \notin Armed(timers')
          /\ Unsubscribe(h) =>
                /\ res' = "ok"
                /\ h \notin Armed(timers')
                /\ \A i \in 1..Len(timers) :
                      timers[i].id # h =>
                          \E j \in 1..Len(timers') : timers'[j] = timers[i]
                /\ h \notin Armed(timers) => timers' = timers
                /\ UNCHANGED <<browsers, timerId, timeToLive, pending,
                               closeCalls, connected>>
    ]_vars

\* C25 witness: two callbacks were subscribed to the only browser ever
\* launched, which is still in its slot with its countdown armed; one
\* subscription has been cancelled through its returned function, the other
\* one is still armed.
C25_Witness ==
    /\ launched = 1
    /\ browsers = <<1>>
    /\ pending = <<>>
    /\ Countdowns(timers, 0) # {}
    /\ Cardinality(unsubs) = 2
    /\ Cardinality(unsubs \cap Armed(timers)) = 1

\* C26: with no cleanup(), the n-th launch to complete (n = 1, 2, ...)
\* returns the id n - 1, whatever failed launches, destroyBrowser calls and
\* expiries have happened before it: the ids returned so far are exactly
\* 0 .. n-2 and the new id is none of them.
C26_IdsCountLaunches ==
    [][CreateBrowser =>
          /\ issued = 0..(launched - 1)
          /\ Len(browsers') - 1 = launched
          /\ Len(browsers') - 1 \notin issued
          /\ JsGet(browsers', launched) = launched'
          /\ issued' = 0..launched
    ]_vars

\* C26 witness: the second launch returned id 1 although id 0 holds no
\* browser any more (close() was requested on the first browser).
C26_Witness ==
    /\ launched = 2
    /\ issued = {0, 1}
    /\ Len(browsers) = 2
    /\ JsGet(browsers, 0) = Null
    /\ JsGet(browsers, 1) = 2
    /\ closeCalls[1] = 1

\* C27 (single-browser manager): createBrowser called while an instance
\* exists rejects with 'Browser already created', requests no launch, and
\* leaves instance, browserId, timeToLive, timerId and the armed intervals as
\* they were.
C27_SecondCreateRejected ==
    [][(Truthy(browserState.instance) /\ SingleCreateBrowserCall) =>
          /\ res' = "createBrowser: Browser already created"
          /\ Launching' = Launching
          /\ UNCHANGED <<browserState, timers, pending, launched, closeCalls>>
    ]_vars

\* C27 witness: a createBrowser call has just been rejected while the browser
\* launched first is in place with its countdown armed.
C27_Witness ==
    /\ res = "createBrowser: Browser already created"
    /\ browserState.instance = 1
    /\ browserState.browserId = 1
    /\ browserState.timerId \in Armed(timers)
    /\ launched = 1
    /\ Launching = {}

\* the single-browser manager holds a browser and bid is its id
SingleLive(bid) ==
    Truthy(browserState.instance) /\ bid = browserState.browserId

\* C28 (single-browser manager): getBrowser(id) returns the instance when id
\* is the id of the browser the manager holds, and throws for every other
\* id, the id of a browser destroyed, expired or dropped as disconnected
\* included; it never returns null.
C28_GetBrowserNeverNull ==
    [][\A bid \in SingleIds :
          SingleGetBrowser(bid) =>
              /\ res' # "getBrowser: null"
              /\ res' = "getBrowser: instance" <=> SingleLive(bid)
              /\ res' = "getBrowser: invalid id" <=> ~SingleLive(bid)
    ]_vars

\* C29 (single-browser manager): createPage, subscribeTTL and destroyBrowser
\* called with an id other than the id of the browser the manager holds fail:
\* no page is returned, no subscription is made, no close() is requested, and
\* the instance, its TTL and the armed intervals are left as they were.
C29_ForeignIdRejected ==
    [][\A bid \in SingleIds :
          (/\ Truthy(browserState.instance)
           /\ connected[browserState.instance]
           /\ bid # browserState.browserId
           /\ \/ \E pageOk \in BOOLEAN : SingleCreatePage(bid, pageOk)
              \/ SingleSubscribeTTL(bid)
              \/ SingleDestroyBrowserCall(bid))
             => /\ res' \notin {"createPage: page", "subscribeTTL: subscribed",
                                "destroyBrowser: accepted"}
                /\ UNCHANGED <<browserState, timers, closeCalls, pending, unsubs>>
    ]_vars

\* an expiry teardown of the single-browser manager is suspended at close()
SingleExpiring == \E p \in 1..Len(pending) : pending[p].op = "timeout"

\* C30 (single-browser manager): once a tick of the countdown has started the
\* expiry teardown, no later tick acts on the browser while close() is
\* pending (no second close(), no second teardown), and the teardown that
\* completes writes the only 'timed out and was closed' record of that id.
C30_ExpiryTearsDownOnce ==
    [][/\ (SingleExpiring /\ SingleTick) => UNCHANGED <<closeCalls, pending>>
       /\ \A p \in 1..Len(pending) :
             SingleTimeoutResume(p) => records[pending[p].bid] = 0
    ]_vars

\* C31 (legacy Puppet): once finallize() has been called and the close() it
\* started have resolved, nothing else having touched the arrays meanwhile,
\* browsers, timerId and timeToLive are empty, close() has been requested on
\* every launched browser and no countdown is armed.
C31_FinallizeLeavesEmptyArrays ==
    [][\A p \in 1..Len(pending) :
          (/\ pending[p].op = "finallize"
           /\ browsers = <<>>
           /\ \A r \in 1..Len(pending) : r # p => pending[r].op # "finallize"
           /\ PuppetCloseResume(p))
             => /\ browsers' = <<>>
                /\ timerId' = <<>>
                /\ timeToLive' = <<>>
                /\ CountdownsOf(timers') = <<>>
                /\ \A k \in 1..launched : closeCalls[k] >= 1
    ]_vars

\* C32: a destroyBrowser or an expiry teardown that was suspended at close()
\* when cleanup() ran changes nothing once cleanup() has completed: the array
\* emptied by cleanup() stays empty until a createBrowser, and the
\* continuation of a teardown neither nulls a slot holding a browser on
\* which close() was never requested nor stops the countdown of that slot.
C32_StaleTeardownIsNoOp ==
    [][/\ (browsers = <<>> /\ launched >= 1 /\ browsers' # <<>>) => CreateBrowser
       /\ \A p \in 1..Len(pending) :
             LET bid == pending[p].bid
                 b   == JsGet(browsers, bid)
             IN  (/\ pending[p].op \in {"destroy", "timeout"}
                  /\ Truthy(b)
                  /\ closeCalls[b] = 0
                  /\ DestroyBrowserResume(p) \/ TimeoutResume(p))
                    => /\ JsGet(browsers', bid) = b
                       /\ JsGet(timerId, bid) \in Armed(timers)
                             => JsGet(timerId, bid) \in Armed(timers')
    ]_vars

\* C33: every browser that was launched and on which close() was never
\* requested is held in a slot of the store, so that expiry, destroyBrowser
\* or cleanup() can still release it: no open browser is unreferenced.
C33_OpenBrowserIsReferenced ==
    \A k \in 1..launched :
        closeCalls[k] = 0 => \E bid \in 0..(Len(browsers) - 1) : JsGet(browsers, bid) = k

\* the browsers launched, still connected, on which close() was never requested
SingleOpen == {k \in 1..launched : closeCalls[k] = 0 /\ connected[k]}

\* C34 (single-browser manager): at most one browser launched by the manager
\* is open at any time, and the continuation of a createBrowser call never
\* replaces an instance stored by another call, also when two calls were
\* awaiting puppeteer.launch together.
C34_AtMostOneOpenBrowser ==
    [][/\ \A p \in Launching :
             SingleCreateBrowserResume(p) => ~Truthy(browserState.instance)
       /\ Cardinality(SingleOpen') <= 1
    ]_vars

\* C35 (single-browser manager): no countdown is armed while browser.instance
\* is null; refreshTTL(id) with the id of a browser that destroyBrowser or
\* expiry has removed starts no timer and leaves timeToLive as it was.
C35_NoCountdownWithoutInstance ==
    [][/\ \A bid \in SingleIds, timeout \in {Undefined} \cup (-1..MaxTTL) :
             (~Truthy(browserState.instance) /\ SingleRefreshTTL(bid, timeout))
                => /\ timers' = timers
                   /\ browserState'.timeToLive = browserState.timeToLive
       /\ (~Truthy(browserState'.instance) /\ pending' = <<>>)
             => CountdownsOf(timers') = <<>>
    ]_vars

\* C36: in every reachable state at most one countdown is armed per id, and
\* it is the one timerId[id] refers to (refreshTTL, createPage and
\* createBrowser cancel the countdown of the id before they arm a new one,
\* cleanup() cancels all of them); so a tick changes the remaining TTL of its
\* own id only, by one at most.
C36_OneCountdownPerId ==
    /\ [](\A bid \in Ids :
            /\ Cardinality(Countdowns(timers, bid)) <= 1
            /\ \A i \in Countdowns(timers, bid) : timers[i].id = JsGet(timerId, bid))
    /\ [][Tick =>
            \A bid \in Ids :
               LET old == JsGet(timeToLive, bid)
               IN  \/ JsGet(timeToLive', bid) = old
                   \/ /\ bid = Head(timers).bid
                      /\ JsGet(timeToLive', bid) = Decrement(old)
         ]_vars

\* C36 witness: after a cleanup() that completed, id 0 was given to the second
\* browser launched; its countdown has ticked and is the only one armed.
C36_Witness ==
    /\ launched = 2
    /\ JsGet(browsers, 0) = 2
    /\ Cardinality(Countdowns(timers, 0)) = 1
    /\ \A i \in Countdowns(timers, 0) :
          timers[i].n >= 1 /\ timers[i].id = JsGet(timerId, 0)
    /\ CountdownsOf(timers) # <<>>
    /\ Len(CountdownsOf(timers)) = 1

=============================================================================
